---- MODULE Spec2Model ----
(***************************************************************************)
(* mongo_derive: the MongoOperations derive macro, the mongo_nested_fields *)
(* attribute macro, and the update builder they generate.                  *)
(*                                                                         *)
(* Two specifications:                                                     *)
(*   GenSpec  the generator: mongo_nested_fields over the item's marker,   *)
(*            then derive_mongo_update_builder field by field, over a      *)
(*            declaration drawn from bounded sets;                         *)
(*   Spec     the generated builders of three declared structs (User with  *)
(*            a nested Address with a nested Geo) driven by every chain of *)
(*            builder calls up to MaxCalls, closures included.             *)
(* Strings are TLA+ strings; format!("{}.{}", a, b) is a \o "." \o b.      *)
(***************************************************************************)
EXTENDS Naturals, Sequences, FiniteSets, TLC

VARIABLES
    stack,      \* builders under construction: the caller's, then one per running with_<field> closure
    calls,      \* number of builder methods called since the caller's update_builder()
    result,     \* what the caller's build() returned, NoResult before it
    lastCall,   \* the last builder method that returned (history)
    genFields,  \* GenSpec: the named fields of the struct given to the derive macro
    genPos,     \* GenSpec: index of the next field the macro's loop processes
    genOut,     \* GenSpec: builder_fields, builder_methods and the three conversion lists
    genDone,    \* GenSpec: the loop is over and the path_updates parts are added
    genInput,   \* GenSpec: the kind of item the macros are given and its mongo_nested_fields marker
    genStatus,  \* GenSpec: which macro runs ("attr", "derive"), or "error" once one has failed
    genExt      \* GenSpec: the methods the mongo_nested_fields macro emitted

vars == <<stack, calls, result, lastCall, genFields, genPos, genOut, genDone,
          genInput, genStatus, genExt>>

(***************************************************************************)
(* Bounds.                                                                 *)
(***************************************************************************)
MaxCalls == 3
MaxFields == 2

(***************************************************************************)
(* Option and Result.                                                      *)
(***************************************************************************)
None == <<>>
Some(v) == <<v>>
IsSome(o) == o # None
Unwrap(o) == o[1]

Ok(v) == [ok |-> TRUE, val |-> v]
Err == [ok |-> FALSE, val |-> "error"]

(***************************************************************************)
(* Annotation parser.  An attribute's arguments are a token sequence:      *)
(* identifiers, punctuation and string literals.                           *)
(***************************************************************************)
Ident(s) == [tk |-> "Ident", s |-> s]
Punct(s) == [tk |-> "Punct", s |-> s]
LitStr(s) == [tk |-> "LitStr", s |-> s]
Comma == Punct(",")
Colon == Punct(":")

\* Punctuated::<Ident, Token![,]>::parse_terminated, then ident.to_string()
RECURSIVE ParseTerminated(_, _)
ParseTerminated(toks, acc) ==
    IF toks = <<>> THEN Ok(acc)
    ELSE IF Head(toks).tk # "Ident" THEN Err
    ELSE IF Len(toks) = 1 THEN Ok(Append(acc, Head(toks).s))
    ELSE IF toks[2] # Comma THEN Err
    ELSE ParseTerminated(Tail(Tail(toks)), Append(acc, Head(toks).s))

MongoOpsParse(toks) == ParseTerminated(toks, <<>>)

Contains(seq, x) == \E i \in 1..Len(seq) : seq[i] = x

\* let mut ops = vec![]; for attr in &field.attrs { ... }
RECURSIVE FieldOpsFrom(_, _)
FieldOpsFrom(attrs, ops) ==
    IF attrs = <<>> THEN ops
    ELSE LET attr == Head(attrs)
             parsed == MongoOpsParse(attr.args)
         IN FieldOpsFrom(Tail(attrs),
                IF attr.path = "mongo_ops" /\ parsed.ok THEN parsed.val ELSE ops)

FieldOps(field) == FieldOpsFrom(field.attrs, <<>>)

(***************************************************************************)
(* Type shape analyzer.  A type is a path type (last segment ident, angle  *)
(* bracketed arguments or none) or some other type (array, reference...).  *)
(***************************************************************************)
PathType(ident, angle, args) == [kind |-> "Path", ident |-> ident, angle |-> angle, args |-> args]
TyT == PathType("T", FALSE, <<>>)
TypeArg(t) == [gk |-> "Type", t |-> t]
TyVecT == PathType("Vec", TRUE, <<TypeArg(TyT)>>)
TyOptionT == PathType("Option", TRUE, <<TypeArg(TyT)>>)
TyArrayT == [kind |-> "Array", ident |-> "", angle |-> FALSE, args |-> <<>>]

\* mutant: the last segment's name is not compared with "Vec"
get_vec_inner_type_AnyGeneric(ty) ==
    IF /\ ty.kind = "Path"
       /\ ty.angle
       /\ ty.args # <<>>
       /\ ty.args[1].gk = "Type"
    THEN Some(ty.args[1].t)
    ELSE None
get_vec_inner_type(ty) ==
    IF /\ ty.kind = "Path"
       /\ ty.ident = "Vec"
       /\ ty.angle
       /\ ty.args # <<>>
       /\ ty.args[1].gk = "Type"
    THEN Some(ty.args[1].t)
    ELSE None

(***************************************************************************)
(* Builder synthesizer: one iteration of the loop over the fields.         *)
(*   builder_fields    storage names with the type they hold               *)
(*   builder_methods   method name and the storage it assigns              *)
(*   *_conversions     storage read and the document key inserted          *)
(***************************************************************************)
EmptyGen ==
    [builder_fields |-> <<>>, builder_methods |-> <<>>, set_conversions |-> <<>>,
     push_conversions |-> <<>>, pull_conversions |-> <<>>]

Storage(name, ty) == [storage |-> name, ty |-> ty]
Method(name, storage) == [method |-> name, storage |-> storage]
Conversion(storage, key) == [storage |-> storage, key |-> key]

GenPush(out, field, ops) ==
    IF Contains(ops, "push") /\ IsSome(get_vec_inner_type(field.ty))
    THEN LET field_storage == "push_" \o field.name
         IN [out EXCEPT
               !.builder_fields = Append(@, Storage(field_storage, Unwrap(get_vec_inner_type(field.ty)))),
               !.builder_methods = Append(@, Method("push_" \o field.name, field_storage)),
               !.push_conversions = Append(@, Conversion(field_storage, field.name))]
    ELSE out

GenPull(out, field, ops) ==
    IF Contains(ops, "pull") /\ IsSome(get_vec_inner_type(field.ty))
    THEN LET field_storage == "pull_" \o field.name
         IN [out EXCEPT
               !.builder_fields = Append(@, Storage(field_storage, Unwrap(get_vec_inner_type(field.ty)))),
               !.builder_methods = Append(@, Method("pull_" \o field.name, field_storage)),
               !.pull_conversions = Append(@, Conversion(field_storage, field.name))]
    ELSE out

\* mutant: no default for a field without operations
SetRequested_NoDefault(ops) == Contains(ops, "set")
SetRequested(ops) == Contains(ops, "set") \/ ops = <<>>

GenSet(out, field, ops) ==
    IF SetRequested(ops)
    THEN LET field_storage == "set_" \o field.name
         IN [out EXCEPT
               !.builder_fields = Append(@, Storage(field_storage, field.ty)),
               !.builder_methods = Append(@, Method("set_" \o field.name, field_storage)),
               !.set_conversions = Append(@, Conversion(field_storage, field.name))]
    ELSE out

\* mutant: `none` is not honoured
Excluded_NoSkip(ops) == FALSE
Excluded(ops) == Contains(ops, "none")

ProcessField(out, field) ==
    LET ops == FieldOps(field)
    IN IF Excluded(ops) THEN out
       ELSE GenSet(GenPull(GenPush(out, field, ops), field, ops), field, ops)

\* after the loop: the path_updates field, and its loop appended to set_conversions
PathUpdatesField == "path_updates"
PathUpdatesConversion == Conversion(PathUpdatesField, "*")

\* mutant: the path_updates loop runs before the named fields' fragments
FinishGen_PathFirst(out) ==
    [out EXCEPT
       !.builder_fields = Append(@, Storage(PathUpdatesField, PathType("HashMap", TRUE, <<>>))),
       !.set_conversions = <<PathUpdatesConversion>> \o @]
FinishGen(out) ==
    [out EXCEPT
       !.builder_fields = Append(@, Storage(PathUpdatesField, PathType("HashMap", TRUE, <<>>))),
       !.set_conversions = Append(@, PathUpdatesConversion)]

RECURSIVE ProcessFields(_, _)
ProcessFields(out, fields) ==
    IF fields = <<>> THEN out
    ELSE ProcessFields(ProcessField(out, Head(fields)), Tail(fields))

Derive(fields) == FinishGen(ProcessFields(EmptyGen, fields))

\* Punctuated::<FieldTypePair, Token![,]>::parse_terminated: ident ":" "literal" pairs
RECURSIVE ParsePairs(_, _)
ParsePairs(toks, acc) ==
    IF toks = <<>> THEN Ok(acc)
    ELSE IF Len(toks) < 3 THEN Err
    ELSE IF toks[1].tk # "Ident" \/ toks[2] # Colon \/ toks[3].tk # "LitStr" THEN Err
    ELSE LET pair == [field_name |-> toks[1].s, type_name |-> toks[3].s]
             rest == SubSeq(toks, 4, Len(toks))
         IN IF rest = <<>> THEN Ok(Append(acc, pair))
            ELSE IF Head(rest) # Comma THEN Err
            ELSE ParsePairs(Tail(rest), Append(acc, pair))

NestedFieldsArgsParse(toks) == ParsePairs(toks, <<>>)

\* for (field_name, type_name) in nested_fields.pairs { ... }: with_<field> taking a
\* closure over <type_name>UpdateBuilder, and <field> writing "<field>.<nested_field>"
NestedMethod(kind, name, field_name, nested_builder) ==
    [kind |-> kind, method |-> name, field_name |-> field_name, nested_builder |-> nested_builder]

RECURSIVE NestedMethods(_, _)
NestedMethods(pairs, acc) ==
    IF pairs = <<>> THEN acc
    ELSE LET pair == Head(pairs)
         IN NestedMethods(Tail(pairs),
                acc \o << NestedMethod("with", "with_" \o pair.field_name, pair.field_name,
                                       pair.type_name \o "UpdateBuilder"),
                          NestedMethod("direct", pair.field_name, pair.field_name, "") >>)

(***************************************************************************)
(* The declared structs of the runtime specification: the User of          *)
(* tests/update_builder_tests.rs (name, tags, password_hash, address), its *)
(* Address extended with a push-only sequence field and a nested Geo.      *)
(***************************************************************************)
Attr(path, args) == [path |-> path, args |-> args]
MongoOpsAttr(args) == Attr("mongo_ops", args)
Field(name, ty, attrs) == [name |-> name, ty |-> ty, attrs |-> attrs]
TyStruct(name) == PathType(name, FALSE, <<>>)

UserFields ==
    << Field("name", TyT, <<MongoOpsAttr(<<Ident("set")>>)>>),
       Field("tags", TyVecT,
             <<MongoOpsAttr(<<Ident("set"), Comma, Ident("push"), Comma, Ident("pull")>>)>>),
       Field("password_hash", TyT, <<MongoOpsAttr(<<Ident("none")>>)>>),
       Field("address", TyStruct("Address"), <<>>) >>
UserNested == <<Ident("address"), Colon, LitStr("Address")>>

AddressFields ==
    << Field("city", TyT, <<MongoOpsAttr(<<Ident("set")>>)>>),
       Field("lines", TyVecT, <<MongoOpsAttr(<<Ident("push")>>)>>),
       Field("geo", TyStruct("Geo"), <<MongoOpsAttr(<<Ident("set"), Comma, Ident("none")>>)>>) >>
AddressNested == <<Ident("geo"), Colon, LitStr("Geo")>>

GeoFields == << Field("lat", TyT, <<>>) >>
GeoNested == <<>>

Structs == {"User", "Address", "Geo"}
FieldsOf(ty) ==
    CASE ty = "User" -> UserFields [] ty = "Address" -> AddressFields [] ty = "Geo" -> GeoFields

UserGen == Derive(UserFields)
AddressGen == Derive(AddressFields)
GeoGen == Derive(GeoFields)
Gen(ty) == CASE ty = "User" -> UserGen [] ty = "Address" -> AddressGen [] ty = "Geo" -> GeoGen

UserPairs == NestedFieldsArgsParse(UserNested).val
AddressPairs == NestedFieldsArgsParse(AddressNested).val
GeoPairs == NestedFieldsArgsParse(GeoNested).val
NestedPairs(ty) ==
    CASE ty = "User" -> UserPairs [] ty = "Address" -> AddressPairs [] ty = "Geo" -> GeoPairs

SeqRange(seq) == {seq[i] : i \in 1..Len(seq)}
FieldNames(ty) == {f.name : f \in SeqRange(FieldsOf(ty))}
SlotMethods(ty) == SeqRange(Gen(ty).builder_methods)
SlotStorages(ty) == {f.storage : f \in SeqRange(Gen(ty).builder_fields)} \ {PathUpdatesField}

(***************************************************************************)
(* The neutral document representation.                                    *)
(***************************************************************************)
Serializable == {"A", "B"}
Unserializable == {"U"}
RustValues == Serializable \cup Unserializable

BsonString(v) == [bt |-> "String", v |-> v]
BsonArray(items) == [bt |-> "Array", v |-> items]
BsonDocument(doc) == [bt |-> "Document", v |-> doc]

\* bson::to_bson
to_bson(v) == IF v \in Unserializable THEN Err ELSE Ok(BsonString(v))

EmptyDoc == [k \in {} |-> BsonString("")]
\* Document::insert, HashMap::insert
Insert(doc, k, v) == [x \in DOMAIN doc \cup {k} |-> IF x = k THEN v ELSE doc[x]]
Keys(doc) == DOMAIN doc
Bucket(doc, op) == IF op \in Keys(doc) THEN doc[op].v ELSE EmptyDoc
\* doc! { op: [value] }
OperatorDoc(op, value) == BsonDocument(Insert(EmptyDoc, op, BsonArray(<<value>>)))

(***************************************************************************)
(* The generated builder.                                                  *)
(***************************************************************************)
\* T::update_builder(): path_updates empty, every slot Default::default()
update_builder(ty) ==
    [ty |-> ty, slots |-> [s \in SlotStorages(ty) |-> None], path_updates |-> EmptyDoc]

\* mutant: the method returns a builder with only its own slot populated
SlotMethod_ResetOthers(b, m, value) ==
    [b EXCEPT !.slots = [s \in DOMAIN b.slots |-> IF s = m.storage THEN Some(value) ELSE None]]
\* mutant: a populated slot keeps its first value
SlotMethod_KeepFirst(b, m, value) ==
    IF IsSome(b.slots[m.storage]) THEN b ELSE [b EXCEPT !.slots[m.storage] = Some(value)]
\* set_<f>, push_<f>, pull_<f>: self.#field_storage = Some(value); self
SlotMethod(b, m, value) == [b EXCEPT !.slots[m.storage] = Some(value)]

\* set_field(field_path, value)
set_field(b, field_path, value) ==
    LET bson == to_bson(value)
    IN IF bson.ok THEN Ok([b EXCEPT !.path_updates = Insert(@, field_path, bson.val)])
       ELSE Err

\* mutant: the field name prefix is left out
FormatPath_NoPrefix(field_name, nested_key) == nested_key
\* format!("{}.{}", field_name, key)
FormatPath(field_name, nested_key) == field_name \o "." \o nested_key

\* <field>(nested_field, value)
DirectPath(b, field_name, nested_field, value) ==
    LET path == FormatPath(field_name, nested_field)
        bson == to_bson(value)
    IN IF bson.ok THEN Ok([b EXCEPT !.path_updates = Insert(@, path, bson.val)])
       ELSE Err

\* for (path, value) in &self.path_updates { set_doc.insert(path, value.clone()); }
\* mutant: the inserted entries replace the map instead of merging into it
InsertAll_Replace(doc, table) == table
InsertAll(doc, table) ==
    [x \in DOMAIN doc \cup DOMAIN table |-> IF x \in DOMAIN table THEN table[x] ELSE doc[x]]

\* mutant: the push and pull operators are swapped
ConversionValue_Swapped(kind, bson) ==
    CASE kind = "set" -> bson
      [] kind = "push" -> OperatorDoc("$in", bson)
      [] kind = "pull" -> OperatorDoc("$each", bson)
ConversionValue(kind, bson) ==
    CASE kind = "set" -> bson
      [] kind = "push" -> OperatorDoc("$each", bson)
      [] kind = "pull" -> OperatorDoc("$in", bson)

\* #(#set_conversions)* and the like: the fragments in order, `?` returning the first failure
RECURSIVE RunConversions(_, _, _, _)
RunConversions(convs, b, kind, doc) ==
    IF convs = <<>> THEN Ok(doc)
    ELSE LET c == Head(convs)
         IN IF c = PathUpdatesConversion
            THEN RunConversions(Tail(convs), b, kind, InsertAll(doc, b.path_updates))
            ELSE IF IsSome(b.slots[c.storage])
            THEN LET bson == to_bson(Unwrap(b.slots[c.storage]))
                 IN IF bson.ok
                    THEN RunConversions(Tail(convs), b, kind,
                                        Insert(doc, c.key, ConversionValue(kind, bson.val)))
                    ELSE Err
            ELSE RunConversions(Tail(convs), b, kind, doc)

\* mutant: a bucket is inserted even when empty
InsertIfNonEmpty_Always(update, op, doc) == Insert(update, op, BsonDocument(doc))
InsertIfNonEmpty(update, op, doc) ==
    IF doc # EmptyDoc THEN Insert(update, op, BsonDocument(doc)) ELSE update

\* mutant: a value of a push slot that fails to serialize is skipped
build_SkipsFailedPush(b) ==
    LET gen == Gen(b.ty)
        set_doc == RunConversions(gen.set_conversions, b, "set", EmptyDoc)
        push_doc == RunConversions(gen.push_conversions, b, "push", EmptyDoc)
        pull_doc == RunConversions(gen.pull_conversions, b, "pull", EmptyDoc)
    IN IF ~set_doc.ok THEN Err
       ELSE IF ~pull_doc.ok THEN Err
       ELSE Ok(InsertIfNonEmpty(InsertIfNonEmpty(InsertIfNonEmpty(EmptyDoc,
                   "$set", set_doc.val), "$push", IF push_doc.ok THEN push_doc.val ELSE EmptyDoc),
                   "$pull", pull_doc.val))
\* build(self)
build(b) ==
    LET gen == Gen(b.ty)
        set_doc == RunConversions(gen.set_conversions, b, "set", EmptyDoc)
        push_doc == RunConversions(gen.push_conversions, b, "push", EmptyDoc)
        pull_doc == RunConversions(gen.pull_conversions, b, "pull", EmptyDoc)
    IN IF ~set_doc.ok THEN Err
       ELSE IF ~push_doc.ok THEN Err
       ELSE IF ~pull_doc.ok THEN Err
       ELSE Ok(InsertIfNonEmpty(InsertIfNonEmpty(InsertIfNonEmpty(EmptyDoc,
                   "$set", set_doc.val), "$push", push_doc.val), "$pull", pull_doc.val))

\* with_<field>(f), after f returned updated_builder: the $set entries of its
\* document go to self.path_updates under "<field>.<key>"
NestedEntries(field_name, set_doc) ==
    LET paths == {FormatPath(field_name, k) : k \in Keys(set_doc)}
    IN [p \in paths |-> set_doc[CHOOSE k \in Keys(set_doc) : FormatPath(field_name, k) = p]]

\* mutant: every bucket of the nested document is copied, not only $set
WithMerge_AllBuckets(b, field_name, updated_builder) ==
    LET doc == build(updated_builder)
        all == InsertAll(InsertAll(Bucket(doc.val, "$set"), Bucket(doc.val, "$push")),
                         Bucket(doc.val, "$pull"))
    IN IF doc.ok
       THEN [b EXCEPT !.path_updates = InsertAll(@, NestedEntries(field_name, all))]
       ELSE b
\* mutant: a failed nested build makes the method return a default parent builder
WithMerge_ResetOnFailure(b, field_name, updated_builder) ==
    LET doc == build(updated_builder)
    IN IF doc.ok /\ "$set" \in Keys(doc.val) /\ doc.val["$set"].bt = "Document"
       THEN [b EXCEPT !.path_updates = InsertAll(@, NestedEntries(field_name, doc.val["$set"].v))]
       ELSE IF doc.ok THEN b ELSE update_builder(b.ty)
WithMerge(b, field_name, updated_builder) ==
    LET doc == build(updated_builder)
    IN IF doc.ok /\ "$set" \in Keys(doc.val) /\ doc.val["$set"].bt = "Document"
       THEN [b EXCEPT !.path_updates = InsertAll(@, NestedEntries(field_name, doc.val["$set"].v))]
       ELSE b

(***************************************************************************)
(* Spec: chains of builder calls.  A frame is one builder under            *)
(* construction with what its caller remembers of the calls made on it.    *)
(***************************************************************************)
\* the paths and nested field names the enumerated callers pass
SetFieldPaths(ty) ==
    CASE ty = "User" -> {"name", "password_hash", "address.city"}
      [] ty = "Address" -> {"city", "geo.lat"}
      [] ty = "Geo" -> {"lat"}
DirectPathArgs(type_name) ==
    CASE type_name = "Address" -> {"city", "geo.lat"}
      [] type_name = "Geo" -> {"lat"}
      [] OTHER -> {"x"}

MethodNames(ty) == {x.method : x \in SlotMethods(ty)}

Frame(ty, via) ==
    [b |-> update_builder(ty),      \* the builder
     alive |-> TRUE,                \* FALSE once a call consumed it without returning it
     via |-> via,                   \* the with_<via> call whose closure holds it, "" for the caller's
     hist |-> [m \in MethodNames(ty) |-> <<>>],     \* arguments of the calls of each slot method
     sf |-> [p \in SetFieldPaths(ty) |-> <<>>]]     \* values of the successful set_field calls per path

Call(op, name, path, arg, ok, nested) ==
    [op |-> op, name |-> name, path |-> path, arg |-> arg, ok |-> ok, nested |-> nested]
NoCall == Call("update_builder", "", "", "", TRUE, "")

NoResult == [built |-> FALSE, ok |-> FALSE, doc |-> EmptyDoc]
Built(r) == [built |-> TRUE, ok |-> r.ok, doc |-> IF r.ok THEN r.val ELSE EmptyDoc]

Depth == Len(stack)
Top == stack[Depth]
SetTop(frame) == [stack EXCEPT ![Depth] = frame]

NoInput == [kind |-> "Struct", nested |-> None]

GenIdle ==
    /\ genFields = <<>>
    /\ genPos = 1
    /\ genOut = EmptyGen
    /\ genDone = FALSE
    /\ genInput = NoInput
    /\ genStatus = "derive"
    /\ genExt = <<>>

RunIdle ==
    /\ stack = <<Frame("User", "")>>
    /\ calls = 0
    /\ result = NoResult
    /\ lastCall = NoCall

Init == RunIdle /\ GenIdle

\* User::update_builder() after the builder was consumed (build, or a failed call);
\* in a closure, a new nested builder after a failed call
CallUpdateBuilder ==
    /\ ~Top.alive
    /\ IF Depth = 1
       THEN /\ stack' = <<Frame("User", "")>>
            /\ calls' = 0
            /\ result' = NoResult
            /\ lastCall' = NoCall
       ELSE /\ stack' = SetTop(Frame(Top.b.ty, Top.via))
            /\ lastCall' = NoCall
            /\ UNCHANGED <<calls, result>>
    /\ UNCHANGED <<genFields, genPos, genOut, genDone,
                 genInput, genStatus, genExt>>

CallSlotMethod ==
    /\ Top.alive /\ calls < MaxCalls
    /\ \E m \in SlotMethods(Top.b.ty), value \in RustValues :
          /\ stack' = SetTop([Top EXCEPT !.b = SlotMethod(@, m, value),
                                         !.hist[m.method] = Append(@, value)])
          /\ lastCall' = Call("slot", m.method, "", value, TRUE, "")
    /\ calls' = calls + 1
    /\ UNCHANGED <<result, genFields, genPos, genOut, genDone,
                 genInput, genStatus, genExt>>

Returned(r) == IF r.ok THEN [Top EXCEPT !.b = r.val] ELSE [Top EXCEPT !.alive = FALSE]

CallSetField ==
    /\ Top.alive /\ calls < MaxCalls
    /\ \E field_path \in SetFieldPaths(Top.b.ty), value \in RustValues :
          LET r == set_field(Top.b, field_path, value)
              top == Returned(r)
          IN /\ stack' = SetTop(IF r.ok THEN [top EXCEPT !.sf[field_path] = Append(@, value)]
                                        ELSE top)
             /\ lastCall' = Call("set_field", "", field_path, value, r.ok, "")
    /\ calls' = calls + 1
    /\ UNCHANGED <<result, genFields, genPos, genOut, genDone,
                 genInput, genStatus, genExt>>

CallDirectPath ==
    /\ Top.alive /\ calls < MaxCalls
    /\ \E pair \in SeqRange(NestedPairs(Top.b.ty)) :
       \E nested_field \in DirectPathArgs(pair.type_name), value \in RustValues :
          LET r == DirectPath(Top.b, pair.field_name, nested_field, value)
          IN /\ stack' = SetTop(Returned(r))
             /\ lastCall' = Call("direct", pair.field_name, nested_field, value, r.ok, "")
    /\ calls' = calls + 1
    /\ UNCHANGED <<result, genFields, genPos, genOut, genDone,
                 genInput, genStatus, genExt>>

\* with_<field>(f): let builder = Type::update_builder(); f(builder) is entered
CallWithEnter ==
    /\ Top.alive /\ calls < MaxCalls
    /\ \E pair \in SeqRange(NestedPairs(Top.b.ty)) :
          /\ pair.type_name \in Structs
          /\ stack' = Append(stack, Frame(pair.type_name, pair.field_name))
          /\ lastCall' = Call("closure", pair.field_name, "", "", TRUE, "")
    /\ calls' = calls + 1
    /\ UNCHANGED <<result, genFields, genPos, genOut, genDone,
                 genInput, genStatus, genExt>>

\* with_<field>(f): f returned updated_builder; the rest of the method runs
CallWithReturn ==
    /\ Depth > 1 /\ Top.alive
    /\ LET parent == stack[Depth - 1]
           merged == [parent EXCEPT !.b = WithMerge(@, Top.via, Top.b)]
       IN /\ stack' = [SubSeq(stack, 1, Depth - 1) EXCEPT ![Depth - 1] = merged]
          /\ lastCall' = Call("with", Top.via, "", "", TRUE,
                               IF build(Top.b).ok THEN "Ok" ELSE "Err")
    /\ UNCHANGED <<calls, result, genFields, genPos, genOut, genDone,
                 genInput, genStatus, genExt>>

CallBuild ==
    /\ Depth = 1 /\ Top.alive
    /\ result' = Built(build(Top.b))
    /\ stack' = SetTop([Top EXCEPT !.alive = FALSE])
    /\ UNCHANGED <<calls, lastCall, genFields, genPos, genOut, genDone,
                 genInput, genStatus, genExt>>

Next ==
    \/ CallUpdateBuilder
    \/ CallSlotMethod
    \/ CallSetField
    \/ CallDirectPath
    \/ CallWithEnter
    \/ CallWithReturn
    \/ CallBuild

Spec == Init /\ [][Next]_vars

(***************************************************************************)
(* GenSpec: the derive macro over a struct declaration.  The declaration   *)
(* is drawn from the annotations and types below; field i is named         *)
(* GenNames[i].                                                            *)
(***************************************************************************)
GenNames == <<"a", "b", "c", "d">>
GenTypes == {TyT, TyVecT, TyOptionT, TyArrayT}
GenArgs ==
    { <<Ident("set")>>,
      <<Ident("push")>>,
      <<Ident("pull"), Comma, Ident("push")>>,
      <<Ident("set"), Comma, Ident("push"), Comma, Ident("pull")>>,
      <<Ident("none")>>,
      <<Ident("set"), Comma, Ident("none")>>,
      <<Ident("set"), Comma>>,
      <<>>,
      <<Ident("set"), Ident("push")>>,
      <<LitStr("set")>> }
GenAttrs ==
    {<<>>, <<Attr("serde", <<Ident("skip")>>)>>}
      \cup {<<MongoOpsAttr(args)>> : args \in GenArgs}
      \cup {<<MongoOpsAttr(<<Ident("set")>>), MongoOpsAttr(<<Ident("push")>>)>>}

GenDecl(choice) == [i \in DOMAIN choice |-> Field(GenNames[i], choice[i][1], choice[i][2])]

\* the items the macros are given: a struct with named fields, or something else
GenKinds == {"Struct", "TupleStruct", "Enum"}
\* the arguments of the mongo_nested_fields marker; the fields are GenNames[1..n],
\* so "a" names a field of the parent and "z" never does
GenMarkers ==
    { <<Ident("a"), Colon, LitStr("X")>>,
      <<Ident("a"), Colon, LitStr("X"), Comma, Ident("z"), Colon, LitStr("Y")>>,
      <<Ident("z"), Colon, LitStr("Y")>>,
      <<Ident("a"), Colon, LitStr("X"), Comma>>,
      <<>>,
      <<Ident("a"), Colon, Ident("X")>>,
      <<Ident("a"), LitStr("X")>>,
      <<Ident("a"), Colon, LitStr("X"), Ident("z"), Colon, LitStr("Y")>>,
      <<LitStr("a"), Colon, LitStr("X")>> }
\* the field annotations of the structs that carry a marker
GenMarkedAttrs ==
    { <<>>, <<MongoOpsAttr(<<Ident("set")>>)>>, <<MongoOpsAttr(<<Ident("set"), Ident("push")>>)>> }

GenInit ==
    /\ RunIdle
    /\ \/ /\ genInput = NoInput
          /\ \E n \in 1..MaxFields :
                \E choice \in [1..n -> GenTypes \X GenAttrs] : genFields = GenDecl(choice)
       \/ /\ \E m \in GenMarkers : genInput = [kind |-> "Struct", nested |-> Some(m)]
          /\ \E n \in 1..MaxFields :
                \E choice \in [1..n -> GenTypes \X GenMarkedAttrs] : genFields = GenDecl(choice)
       \/ /\ \E k \in GenKinds \ {"Struct"}, o \in {None} \cup {Some(m) : m \in GenMarkers} :
                genInput = [kind |-> k, nested |-> o]
          /\ genFields = <<>>
    /\ genStatus = IF IsSome(genInput.nested) THEN "attr" ELSE "derive"
    /\ genPos = 1
    /\ genOut = EmptyGen
    /\ genDone = FALSE
    /\ genExt = <<>>

\* mongo_nested_fields(args, input): the arguments are parsed, a failure is the
\* macro's whole output (a compile error); otherwise two methods per pair
GenExtend ==
    /\ genStatus = "attr"
    /\ LET nested_fields == NestedFieldsArgsParse(Unwrap(genInput.nested))
       IN IF nested_fields.ok
          THEN /\ genExt' = NestedMethods(nested_fields.val, <<>>)
               /\ genStatus' = "derive"
          ELSE /\ genExt' = genExt
               /\ genStatus' = "error"
    /\ UNCHANGED <<stack, calls, result, lastCall, genFields, genPos, genOut, genDone, genInput>>

\* derive_mongo_update_builder on anything but a struct with named fields: panic!
GenReject ==
    /\ genStatus = "derive" /\ genInput.kind # "Struct"
    /\ genStatus' = "error"
    /\ UNCHANGED <<stack, calls, result, lastCall, genFields, genPos, genOut, genDone,
                   genInput, genExt>>

\* for field in fields.iter() { ... }: one iteration
GenField ==
    /\ genStatus = "derive" /\ genInput.kind = "Struct"
    /\ ~genDone /\ genPos <= Len(genFields)
    /\ genOut' = ProcessField(genOut, genFields[genPos])
    /\ genPos' = genPos + 1
    /\ UNCHANGED <<stack, calls, result, lastCall, genFields, genDone,
                   genInput, genStatus, genExt>>

\* after the loop: path_updates is added and the builder is emitted
GenFinish ==
    /\ genStatus = "derive" /\ genInput.kind = "Struct"
    /\ ~genDone /\ genPos > Len(genFields)
    /\ genOut' = FinishGen(genOut)
    /\ genDone' = TRUE
    /\ UNCHANGED <<stack, calls, result, lastCall, genFields, genPos,
                   genInput, genStatus, genExt>>

GenNext == GenExtend \/ GenReject \/ GenField \/ GenFinish

GenSpec == GenInit /\ [][GenNext]_vars

(***************************************************************************)
(* Vocabulary of the properties.                                           *)
(***************************************************************************)
Last(seq) == seq[Len(seq)]
Called(frame, method) == frame.hist[method] # <<>>
LastArg(frame, method) == Last(frame.hist[method])

\* frames whose builder exists, or existed when the caller's build() consumed it
Usable(i) == stack[i].alive \/ (i = 1 /\ result.built)
\* what build() returns for frame i's builder: the caller's recorded result once
\* it has called build(), build() applied to the builder otherwise
FrameBuild(i) ==
    IF i = 1 /\ result.built THEN [ok |-> result.ok, val |-> result.doc]
    ELSE build(stack[i].b)
RootBuilt == Depth = 1 /\ result.built
RootDoc == result.doc

DeclaredOps(field) == FieldOps(field)
NoneFields(ty) == {f.name : f \in {x \in SeqRange(FieldsOf(ty)) : Contains(DeclaredOps(x), "none")}}
SetEligible(ty) == {f \in FieldNames(ty) : ("set_" \o f) \in MethodNames(ty)}
PushFields(ty) ==
    {f.name : f \in {x \in SeqRange(FieldsOf(ty)) :
        Contains(DeclaredOps(x), "push") /\ ~Contains(DeclaredOps(x), "none")
        /\ x.ty.kind = "Path" /\ x.ty.ident = "Vec" /\ x.ty.args # <<>>}}
PullFields(ty) ==
    {f.name : f \in {x \in SeqRange(FieldsOf(ty)) :
        Contains(DeclaredOps(x), "pull") /\ ~Contains(DeclaredOps(x), "none")
        /\ x.ty.kind = "Path" /\ x.ty.ident = "Vec" /\ x.ty.args # <<>>}}
AllSlotValuesSerialize(frame) ==
    \A m \in DOMAIN frame.hist : Called(frame, m) => LastArg(frame, m) \in Serializable
NoMember(ty, f) ==
    \A prefix \in {"set_", "push_", "pull_"} :
        /\ (prefix \o f) \notin MethodNames(ty)
        /\ (prefix \o f) \notin SlotStorages(ty)

(***************************************************************************)
(* C1 as stated: for every field marked `none` the builder has no method   *)
(* or slot, and the document build() returns never has the field's name as *)
(* a key of $set, $push or $pull, whatever was called.                      *)
(***************************************************************************)
C1_NoneFieldNeverInDocument ==
    RootBuilt =>
        LET ty == stack[1].b.ty
            r == FrameBuild(1)
        IN \A f \in NoneFields(ty) :
              /\ NoMember(ty, f)
              /\ r.ok => /\ f \notin Keys(Bucket(r.val, "$set"))
                         /\ f \notin Keys(Bucket(r.val, "$push"))
                         /\ f \notin Keys(Bucket(r.val, "$pull"))

(***************************************************************************)
(* C1 amended: for every field marked `none` the builder has no method or  *)
(* slot, the document build() returns never has the field's name as a key  *)
(* of $push or $pull, and has it as a key of $set if and only if set_field *)
(* was called successfully with a path equal to the field's name.          *)
(***************************************************************************)
C1_NoneFieldOnlyBySetField ==
    \A i \in 1..Depth : Usable(i) =>
        LET ty == stack[i].b.ty
            r == FrameBuild(i)
        IN \A f \in NoneFields(ty) :
              /\ NoMember(ty, f)
              /\ r.ok => /\ f \in Keys(Bucket(r.val, "$set"))
                              <=> (f \in DOMAIN stack[i].sf /\ stack[i].sf[f] # <<>>)
                         /\ f \notin Keys(Bucket(r.val, "$push"))
                         /\ f \notin Keys(Bucket(r.val, "$pull"))

C1_Witness ==
    /\ RootBuilt /\ result.ok
    /\ "password_hash" \in Keys(Bucket(RootDoc, "$set"))
    /\ Keys(Bucket(RootDoc, "$push")) # {}
    /\ lastCall.op = "with"

(***************************************************************************)
(* C2 as stated: if the last set_f call was set_f(v) with v serializable   *)
(* and the path-update table has no key f, build() succeeds with           *)
(* $set[f] = serialize(v), and every other key of $set is another          *)
(* populated set slot's field or a key of the path-update table.           *)
(***************************************************************************)
SetClaim(i, f, r) ==
    /\ r.ok
    /\ f \in Keys(Bucket(r.val, "$set"))
    /\ Bucket(r.val, "$set")[f] = to_bson(LastArg(stack[i], "set_" \o f)).val
    /\ \A k \in Keys(Bucket(r.val, "$set")) \ {f} :
          \/ k \in DOMAIN stack[i].b.path_updates
          \/ k \in SetEligible(stack[i].b.ty) /\ Called(stack[i], "set_" \o k)

SetCase(i, f) ==
    /\ Called(stack[i], "set_" \o f)
    /\ LastArg(stack[i], "set_" \o f) \in Serializable
    /\ f \notin DOMAIN stack[i].b.path_updates

C2_SetThenBuildSucceeds ==
    RootBuilt =>
        \A f \in SetEligible(stack[1].b.ty) :
            SetCase(1, f) => SetClaim(1, f, FrameBuild(1))

(***************************************************************************)
(* C2 amended: if the last set_f call was set_f(v) with v serializable,    *)
(* the path-update table has no key f and every other populated slot holds *)
(* a serializable value, build() succeeds with $set[f] = serialize(v), and *)
(* every other key of $set is another populated set slot's field or a key  *)
(* of the path-update table.                                               *)
(***************************************************************************)
C2_SetThenBuild ==
    \A i \in 1..Depth : Usable(i) =>
        \A f \in SetEligible(stack[i].b.ty) :
            (SetCase(i, f) /\ AllSlotValuesSerialize(stack[i])) => SetClaim(i, f, FrameBuild(i))

C2_Witness ==
    /\ RootBuilt /\ result.ok
    /\ Len(stack[1].hist["set_name"]) = 2
    /\ stack[1].hist["set_name"][1] # stack[1].hist["set_name"][2]
    /\ Called(stack[1], "set_tags")
    /\ SetCase(1, "name")

(***************************************************************************)
(* C3: for every sequence-shaped field f with push (pull) requested, the   *)
(* document build() returns has key f in $push ($pull) if and only if      *)
(* push_f (pull_f) was called, its value is the sub-document holding the   *)
(* one-element list [serialize(v)] of the last such call's argument, and   *)
(* $push ($pull) has no other keys.                                        *)
(***************************************************************************)
ArrayOpClaim(frame, doc, op, each, prefix, fields) ==
    /\ Keys(Bucket(doc, op)) \subseteq fields
    /\ \A f \in fields :
          /\ f \in Keys(Bucket(doc, op)) <=> Called(frame, prefix \o f)
          /\ Called(frame, prefix \o f) =>
                Bucket(doc, op)[f] =
                    BsonDocument(each :> BsonArray(<<to_bson(LastArg(frame, prefix \o f)).val>>))

C3_PushPullLastCallOnly ==
    \A i \in 1..Depth : Usable(i) =>
        LET ty == stack[i].b.ty
            r == FrameBuild(i)
        IN r.ok => /\ ArrayOpClaim(stack[i], r.val, "$push", "$each", "push_", PushFields(ty))
                   /\ ArrayOpClaim(stack[i], r.val, "$pull", "$in", "pull_", PullFields(ty))

C3_Witness ==
    /\ RootBuilt /\ result.ok
    /\ Len(stack[1].hist["push_tags"]) = 2
    /\ stack[1].hist["push_tags"][1] # stack[1].hist["push_tags"][2]
    /\ Called(stack[1], "pull_tags")

(***************************************************************************)
(* C4: with_<field>(cfg) hands cfg a fresh nested builder (every slot      *)
(* empty, empty path table) and leaves the parent as it is meanwhile; when *)
(* cfg has returned and the nested build succeeds, the parent's path table *)
(* gains exactly the entries "<field>.<k>" -> v of the nested document's   *)
(* $set bucket (nothing of $push or $pull), no parent slot changes, and    *)
(* the entries are under $set of the parent's build().                     *)
(***************************************************************************)
WithEnterClaim ==
    LET nested == stack'[Depth + 1].b
    IN /\ \A s \in DOMAIN nested.slots : nested.slots[s] = None
       /\ DOMAIN nested.path_updates = {}
       /\ nested.ty \in {pair.type_name : pair \in SeqRange(NestedPairs(Top.b.ty))}
       /\ SubSeq(stack', 1, Depth) = stack

WithReturnClaim ==
    LET field == Top.via
        nested == build(Top.b)
        nested_set == Bucket(nested.val, "$set")
        before == stack[Depth - 1].b
        after == stack'[Depth - 1].b
        parent_doc == build(after)
    IN /\ after.slots = before.slots
       /\ SubSeq(stack', 1, Depth - 2) = SubSeq(stack, 1, Depth - 2)
       /\ nested.ok =>
            /\ \A k \in Keys(nested_set) :
                  /\ (field \o "." \o k) \in DOMAIN after.path_updates
                  /\ after.path_updates[field \o "." \o k] = nested_set[k]
            /\ \A q \in DOMAIN after.path_updates :
                  \/ \E k \in Keys(nested_set) : q = field \o "." \o k
                  \/ q \in DOMAIN before.path_updates
                       /\ after.path_updates[q] = before.path_updates[q]
            /\ DOMAIN before.path_updates \subseteq DOMAIN after.path_updates
            /\ parent_doc.ok =>
                  \A k \in Keys(nested_set) :
                      /\ (field \o "." \o k) \in Keys(Bucket(parent_doc.val, "$set"))
                      /\ Bucket(parent_doc.val, "$set")[field \o "." \o k] = nested_set[k]

C4_WithFieldCopiesNestedSet ==
    [][ /\ (Len(stack') = Depth + 1) => WithEnterClaim
        /\ (Len(stack') = Depth - 1) => WithReturnClaim ]_vars

C4_Witness ==
    /\ RootBuilt /\ result.ok
    /\ lastCall.op = "with" /\ lastCall.name = "address" /\ lastCall.nested = "Ok"
    /\ calls = 3
    /\ Keys(Bucket(RootDoc, "$set")) = {"address.geo.lat"}

(***************************************************************************)
(* C5: <field>(p, v) and set_field(path, v) fail if and only if            *)
(* serializing v fails; on success they return the builder with the path   *)
(* table entry "<field>.p" (resp. path) mapped to serialize(v), every      *)
(* other entry and every slot unchanged, and build() then has that entry   *)
(* under $set.  No path is refused.                                        *)
(***************************************************************************)
PathWriteClaim(key, value) ==
    LET before == Top.b
        after == stack'[Depth]
        doc == build(after.b)
    IN /\ lastCall'.ok <=> to_bson(value).ok
       /\ ~lastCall'.ok => ~after.alive
       /\ lastCall'.ok =>
            /\ after.alive
            /\ after.b.slots = before.slots
            /\ DOMAIN after.b.path_updates = DOMAIN before.path_updates \cup {key}
            /\ after.b.path_updates[key] = to_bson(value).val
            /\ \A q \in DOMAIN before.path_updates \ {key} :
                  after.b.path_updates[q] = before.path_updates[q]
            /\ doc.ok => /\ key \in Keys(Bucket(doc.val, "$set"))
                         /\ Bucket(doc.val, "$set")[key] = to_bson(value).val

C5_DirectPathAndSetField ==
    [][ /\ (calls' = calls + 1 /\ lastCall'.op = "set_field")
              => PathWriteClaim(lastCall'.path, lastCall'.arg)
        /\ (calls' = calls + 1 /\ lastCall'.op = "direct")
              => PathWriteClaim(lastCall'.name \o "." \o lastCall'.path, lastCall'.arg) ]_vars

C5_Witness ==
    /\ RootBuilt /\ result.ok
    /\ lastCall.op = "direct" /\ lastCall.ok /\ lastCall.path = "geo.lat"
    /\ "address.geo.lat" \in Keys(Bucket(RootDoc, "$set"))
    /\ stack[1].sf["address.city"] # <<>>
    /\ \A m \in DOMAIN stack[1].hist : ~Called(stack[1], m)

(***************************************************************************)
(* C6: when set_field wrote a path equal to the name of a field f whose    *)
(* set slot is populated too, build() has the path-update value under      *)
(* $set[f], whichever of the two calls came first.                         *)
(***************************************************************************)
C6_PathUpdateOverridesSetSlot ==
    \A i \in 1..Depth : Usable(i) =>
        LET frame == stack[i]
            r == FrameBuild(i)
        IN \A f \in SetEligible(frame.b.ty) :
              (r.ok /\ Called(frame, "set_" \o f) /\ f \in DOMAIN frame.b.path_updates) =>
                  /\ f \in DOMAIN frame.sf /\ frame.sf[f] # <<>>
                  /\ frame.b.path_updates[f] = to_bson(Last(frame.sf[f])).val
                  /\ Bucket(r.val, "$set")[f] = frame.b.path_updates[f]

C6_Witness ==
    /\ RootBuilt /\ result.ok
    /\ lastCall.op = "slot" /\ lastCall.name = "set_name"
    /\ stack[1].sf["name"] # <<>>
    /\ Last(stack[1].sf["name"]) # LastArg(stack[1], "set_name")
    /\ Bucket(RootDoc, "$set")["name"] = to_bson(Last(stack[1].sf["name"])).val

(***************************************************************************)
(* C7: a successful build() returns a document whose keys are among $set,  *)
(* $push and $pull, each present if and only if its bucket is non-empty    *)
(* (a set slot populated or the path table non-empty; a push slot          *)
(* populated; a pull slot populated); with nothing called the document is  *)
(* empty.                                                                  *)
(***************************************************************************)
C7_BucketsPresentIffNonEmpty ==
    \A i \in 1..Depth : Usable(i) =>
        LET frame == stack[i]
            ty == frame.b.ty
            r == FrameBuild(i)
        IN r.ok =>
            /\ Keys(r.val) \subseteq {"$set", "$push", "$pull"}
            /\ \A op \in Keys(r.val) : r.val[op].bt = "Document" /\ Keys(r.val[op].v) # {}
            /\ "$set" \in Keys(r.val) <=>
                  \/ \E f \in SetEligible(ty) : Called(frame, "set_" \o f)
                  \/ DOMAIN frame.b.path_updates # {}
            /\ "$push" \in Keys(r.val) <=> \E f \in PushFields(ty) : Called(frame, "push_" \o f)
            /\ "$pull" \in Keys(r.val) <=> \E f \in PullFields(ty) : Called(frame, "pull_" \o f)
            /\ ((\A m \in DOMAIN frame.hist : ~Called(frame, m)) /\ DOMAIN frame.b.path_updates = {})
                  => Keys(r.val) = {}

C7_Witness ==
    /\ RootBuilt /\ result.ok
    /\ Keys(RootDoc) = {"$set", "$pull"}
    /\ DOMAIN stack[1].b.path_updates # {}
    /\ \A f \in SetEligible("User") : ~Called(stack[1], "set_" \o f)

(***************************************************************************)
(* C8: build() succeeds exactly when every populated set, push and pull    *)
(* slot value serializes; when one does not, it returns a failure and no   *)
(* document.                                                               *)
(***************************************************************************)
C8_BuildFailsIffAValueFails ==
    /\ \A i \in 1..Depth : Usable(i) => (FrameBuild(i).ok <=> AllSlotValuesSerialize(stack[i]))
    /\ (result.built /\ ~result.ok) => Keys(result.doc) = {}

C8_Witness ==
    /\ RootBuilt /\ ~result.ok
    /\ Called(stack[1], "set_name") /\ LastArg(stack[1], "set_name") \in Serializable
    /\ Called(stack[1], "pull_tags") /\ LastArg(stack[1], "pull_tags") \in Unserializable
    /\ DOMAIN stack[1].b.path_updates # {}

(***************************************************************************)
(* C9: a set_<f>, push_<f> or pull_<f> call changes the one slot of that   *)
(* field and operation and nothing else: every other slot, among them the  *)
(* two other slots of the same field, and the path table stay as they are. *)
(***************************************************************************)
SlotCallClaim(method, value) ==
    LET before == Top.b
        after == stack'[Depth]
    IN /\ after.alive
       /\ DOMAIN after.b.slots = DOMAIN before.slots
       /\ after.b.slots[method] = Some(value)
       /\ \A s \in DOMAIN before.slots \ {method} : after.b.slots[s] = before.slots[s]
       /\ after.b.path_updates = before.path_updates
       /\ SubSeq(stack', 1, Depth - 1) = SubSeq(stack, 1, Depth - 1)

C9_SlotMethodChangesOneSlot ==
    [][ (calls' = calls + 1 /\ lastCall'.op = "slot")
            => SlotCallClaim(lastCall'.name, lastCall'.arg) ]_vars

C9_Witness ==
    /\ Depth = 1 /\ Top.alive
    /\ lastCall.op = "slot" /\ lastCall.name = "push_tags" /\ lastCall.arg = "B"
    /\ Top.b.slots["set_tags"] = Some("A")
    /\ Top.b.slots["pull_tags"] = Some("U")
    /\ Top.b.slots["push_tags"] = Some("B")

(***************************************************************************)
(* C10: the macro emits a set slot and a set_<field> method for a field if *)
(* and only if its operations do not contain `none` and are empty or       *)
(* contain `set`; the slot holds the field's declared type; a field with   *)
(* no annotation yields what the same field annotated `set` yields.        *)
(***************************************************************************)
GenHasMethod(name) ==
    \E k \in 1..Len(genOut.builder_methods) :
        genOut.builder_methods[k] = Method(name, name)
GenHasStorage(name, ty) ==
    \E k \in 1..Len(genOut.builder_fields) :
        genOut.builder_fields[k] = Storage(name, ty)
GenHasName(name) ==
    \/ \E k \in 1..Len(genOut.builder_methods) : genOut.builder_methods[k].method = name
    \/ \E k \in 1..Len(genOut.builder_fields) : genOut.builder_fields[k].storage = name
AnnotatedSet(field) == [field EXCEPT !.attrs = <<MongoOpsAttr(<<Ident("set")>>)>>]

C10_SetMethodIffRequested ==
    /\ \A i \in 1..(genPos - 1) :
          LET field == genFields[i]
              ops == DeclaredOps(field)
              wanted == ~Contains(ops, "none") /\ (ops = <<>> \/ Contains(ops, "set"))
          IN /\ wanted => GenHasMethod("set_" \o field.name)
                           /\ GenHasStorage("set_" \o field.name, field.ty)
             /\ ~wanted => ~GenHasName("set_" \o field.name)
    /\ genDone =>
          \A i \in 1..Len(genFields) :
              genFields[i].attrs = <<>> =>
                  genOut = Derive([genFields EXCEPT ![i] = AnnotatedSet(genFields[i])])

C10_Witness ==
    /\ genDone /\ Len(genFields) = 2
    /\ genFields[1].attrs = <<>> /\ GenHasMethod("set_a")
    /\ genFields[2].attrs = <<MongoOpsAttr(<<Ident("pull"), Comma, Ident("push")>>)>>
    /\ GenHasMethod("push_b") /\ ~GenHasName("set_b")

(***************************************************************************)
(* C11: whenever the generator has read an annotation whose tokens do not  *)
(* parse (the mongo_ops marker of a field the derive loop has processed,   *)
(* or the mongo_nested_fields marker once that macro has run), the         *)
(* generation step has failed: nothing is emitted for the item and no      *)
(* builder is completed.                                                   *)
(***************************************************************************)
MalformedOps(field) ==
    \E k \in 1..Len(field.attrs) :
        field.attrs[k].path = "mongo_ops" /\ ~MongoOpsParse(field.attrs[k].args).ok
MalformedMarker ==
    IsSome(genInput.nested) /\ ~NestedFieldsArgsParse(Unwrap(genInput.nested)).ok
GenFailed == genStatus = "error" /\ ~genDone

C11_MalformedFailsGeneration ==
    /\ (MalformedMarker /\ genStatus # "attr") =>
          GenFailed /\ genExt = <<>> /\ genOut = EmptyGen
    /\ \A i \in 1..(genPos - 1) : MalformedOps(genFields[i]) => GenFailed

(***************************************************************************)
(* C12: when the closure of with_<field> returns a nested builder whose    *)
(* build() fails, with_<field> still returns the parent builder, with      *)
(* every slot and the whole path table as they were before the call, and   *)
(* the frames below it untouched; the parent's build() then succeeds or    *)
(* fails by the parent's own slot values alone.                            *)
(***************************************************************************)
FailedWithClaim ==
    LET before == stack[Depth - 1]
        after == stack'[Depth - 1]
    IN /\ lastCall'.op = "with" /\ lastCall'.ok
       /\ after.alive
       /\ after.b.ty = before.b.ty
       /\ after.b.slots = before.b.slots
       /\ after.b.path_updates = before.b.path_updates
       /\ SubSeq(stack', 1, Depth - 2) = SubSeq(stack, 1, Depth - 2)
       /\ build(after.b).ok <=> AllSlotValuesSerialize(before)

C12_FailedNestedBuildIsSwallowed ==
    [][ (Len(stack') = Depth - 1 /\ ~build(Top.b).ok) => FailedWithClaim ]_vars

C12_Witness ==
    /\ RootBuilt /\ result.ok
    /\ lastCall.op = "with" /\ lastCall.name = "address" /\ lastCall.nested = "Err"
    /\ Keys(RootDoc) = {"$set"}
    /\ Keys(Bucket(RootDoc, "$set")) = {"name"}

(***************************************************************************)
(* C13: for every field the derive loop has processed and each of push and *)
(* pull, the macro has emitted the push_<f> (pull_<f>) slot, method and    *)
(* document fragment if and only if the field's operations contain it, do  *)
(* not contain `none`, and the declared type is Vec<T>; the slot then      *)
(* holds T.  Otherwise nothing of that name is emitted, and the macro does *)
(* not fail: a struct with named fields whose marker parses is never       *)
(* rejected.                                                               *)
(***************************************************************************)
SequenceShaped(ty) ==
    ty.kind = "Path" /\ ty.ident = "Vec" /\ ty.angle /\ Len(ty.args) > 0 /\ ty.args[1].gk = "Type"
ElementType(ty) == ty.args[1].t
GenConversions(op) == IF op = "push" THEN genOut.push_conversions ELSE genOut.pull_conversions
GenHasFragment(op, storage, key) ==
    \E k \in 1..Len(GenConversions(op)) : GenConversions(op)[k] = Conversion(storage, key)
GenMentions(op, field_name) ==
    \E k \in 1..Len(GenConversions(op)) :
        GenConversions(op)[k].key = field_name \/ GenConversions(op)[k].storage = op \o "_" \o field_name

C13_PushPullOnlyForSequences ==
    /\ \A i \in 1..(genPos - 1) : \A op \in {"push", "pull"} :
          LET field == genFields[i]
              ops == DeclaredOps(field)
              name == op \o "_" \o field.name
              wanted == Contains(ops, op) /\ ~Contains(ops, "none") /\ SequenceShaped(field.ty)
          IN /\ wanted => /\ GenHasMethod(name)
                          /\ GenHasStorage(name, ElementType(field.ty))
                          /\ GenHasFragment(op, name, field.name)
             /\ ~wanted => /\ ~GenHasName(name)
                           /\ ~GenMentions(op, field.name)
    /\ (genInput.kind = "Struct" /\ ~MalformedMarker) => genStatus # "error"
    /\ (genInput.kind = "Struct" /\ genStatus = "derive" /\ genPos > Len(genFields))
          => (genDone \/ ENABLED GenFinish)

C13_Witness ==
    /\ genDone /\ Len(genFields) = 2
    /\ genFields[1].ty = TyOptionT
    /\ genFields[1].attrs = <<MongoOpsAttr(<<Ident("pull"), Comma, Ident("push")>>)>>
    /\ genOut.builder_methods = <<Method("push_b", "push_b"), Method("pull_b", "pull_b"),
                                  Method("set_b", "set_b")>>
    /\ genFields[2].ty = TyVecT
    /\ GenHasStorage("pull_b", TyT)

(***************************************************************************)
(* C14: every call made on a builder leaves its path table equal to the    *)
(* table before the call overwritten with that call's writes: set_field    *)
(* writes path -> serialize(v), <field>(p, v) writes "<field>.p" ->        *)
(* serialize(v), with_<field> writes "<field>.k" -> the nested $set value  *)
(* of every key k of a successful nested build, and any other call writes  *)
(* nothing.  A written key holds the written value whatever it held        *)
(* before and whichever method wrote it, every other key keeps its value,  *)
(* and no key is removed.                                                  *)
(***************************************************************************)
\* frame i's builder is the same builder before and after the step
SameBuilder(i) == i <= Depth /\ i <= Len(stack') /\ stack[i].alive /\ stack'[i].alive

WritesPath(i) ==
    calls' = calls + 1 /\ i = Depth /\ lastCall'.ok /\ lastCall'.op \in {"set_field", "direct"}
MergesNested(i) == Len(stack') = Depth - 1 /\ i = Depth - 1 /\ build(Top.b).ok

WrittenKeys(i) ==
    IF WritesPath(i)
    THEN IF lastCall'.op = "set_field" THEN {lastCall'.path}
         ELSE {lastCall'.name \o "." \o lastCall'.path}
    ELSE IF MergesNested(i)
    THEN {Top.via \o "." \o k : k \in Keys(Bucket(build(Top.b).val, "$set"))}
    ELSE {}

WrittenValue(i, q) ==
    IF WritesPath(i) THEN to_bson(lastCall'.arg).val
    ELSE LET nested_set == Bucket(build(Top.b).val, "$set")
         IN nested_set[CHOOSE k \in Keys(nested_set) : Top.via \o "." \o k = q]

LastWriteWins(i) ==
    LET before == stack[i].b.path_updates
        after == stack'[i].b.path_updates
    IN /\ DOMAIN after = DOMAIN before \cup WrittenKeys(i)
       /\ \A q \in WrittenKeys(i) : after[q] = WrittenValue(i, q)
       /\ \A q \in DOMAIN before \ WrittenKeys(i) : after[q] = before[q]

C14_PathTableLastWriteWins ==
    [][ \A i \in 1..Depth : SameBuilder(i) => LastWriteWins(i) ]_vars

C14_Witness ==
    /\ RootBuilt /\ result.ok
    /\ lastCall.op = "with" /\ lastCall.name = "address" /\ lastCall.nested = "Ok"
    /\ stack[1].sf["address.city"] = <<"A">>
    /\ DOMAIN stack[1].b.path_updates = {"address.city"}
    /\ stack[1].b.path_updates["address.city"] = BsonString("B")
    /\ Bucket(RootDoc, "$set")["address.city"] = BsonString("B")

(***************************************************************************)
(* C15: when the generation of a struct completes, every with_<field> and  *)
(* <field> method the mongo_nested_fields macro emitted is for a pair      *)
(* whose field name is the name of a field of that struct.                 *)
(***************************************************************************)
ParentFieldNames == {genFields[i].name : i \in 1..Len(genFields)}

C15_NestedPairsNameParentFields ==
    genDone => \A k \in 1..Len(genExt) : genExt[k].field_name \in ParentFieldNames

====
